---------------------------- MODULE Spec2Model ----------------------------
(***************************************************************************)
(* Model of digit_interface/digit_handler.py (class DigitHandler).         *)
(*                                                                         *)
(* Python strings are sequences of one-character strings, so that strip(), *)
(* startswith(), the substring test and splitlines() are computed and not  *)
(* assumed.  Python's None is the one-element sequence <<"None">>, which   *)
(* is no character sequence.                                               *)
(***************************************************************************)
EXTENDS Integers, Sequences, FiniteSets, TLC

\* ------------------------------------------------------------------ bounds
\* Largest number of lines of a generated tool output (SpecParse).
MaxLines == 3
\* Largest number of consecutive calls counted under an unchanged environment.
MaxCalls == 2

\* ----------------------------------------------------------- str primitives
None == <<"None">>

\* Characters str.strip() removes (those of them the model's texts use).
Whitespace == {" ", "\t", "\n", "\r", "\f"}

\* Characters str.splitlines() breaks a line at ("\r\n" counts once).
LineBreaks == {"\n", "\r", "\f"}

RECURSIVE LStrip(_)
LStrip(s) ==
    IF s # <<>> /\ Head(s) \in Whitespace THEN LStrip(Tail(s)) ELSE s

RECURSIVE RStrip(_)
RStrip(s) ==
    IF s # <<>> /\ s[Len(s)] \in Whitespace
    THEN RStrip(SubSeq(s, 1, Len(s) - 1))
    ELSE s

\* str.strip()
Strip(s) == RStrip(LStrip(s))

\* str.startswith(prefix)
StartsWith(s, prefix) ==
    Len(s) >= Len(prefix) /\ SubSeq(s, 1, Len(prefix)) = prefix

\* sub in s
Contains(s, sub) ==
    \E i \in 1..(Len(s) - Len(sub) + 1) : SubSeq(s, i, i + Len(sub) - 1) = sub

\* str.splitlines(): cut at every line break, "\r\n" being one break; a text
\* that ends with a break has no empty last line.
RECURSIVE SplitFrom(_, _, _)
SplitFrom(t, cur, acc) ==
    IF t = <<>>
    THEN IF cur = <<>> THEN acc ELSE Append(acc, cur)
    ELSE IF Head(t) = "\r" /\ Len(t) >= 2 /\ t[2] = "\n"
         THEN SplitFrom(Tail(Tail(t)), <<>>, Append(acc, cur))
         ELSE IF Head(t) \in LineBreaks
              THEN SplitFrom(Tail(t), <<>>, Append(acc, cur))
              ELSE SplitFrom(Tail(t), Append(cur, Head(t)), acc)

SplitLines(t) == SplitFrom(t, <<>>, <<>>)

\* os.path.basename(): what follows the last "/".
RECURSIVE Basename(_)
Basename(p) ==
    IF \E i \in 1..Len(p) : p[i] = "/"
    THEN Basename(Tail(p))
    ELSE p

\* Python truthiness of an Optional[str].
Truthy(x) == x # None /\ x # <<>>

\* Python truthiness of a list.
NonEmptyList(l) == l # <<>>

\* ---------------------------------------------------------------- literals
Marker == <<"D", "I", "G", "I", "T">>
Unknown == <<"U", "n", "k", "n", "o", "w", "n">>
Tab == <<"\t">>


\* ------------------------------------------------------------------- sysfs
\* State of one sysfs attribute file: missing, present but failing to open
\* or read, or its raw content.
Absent == <<"ENOENT">>
Unreadable == <<"EACCES">>

\* Attribute files in the order the code reads them, and the key each fills.
AttrOrder == <<"serial", "manufacturer", "product", "bcdDevice">>

FieldOf(attr) ==
    CASE attr = "serial" -> "serial"
      [] attr = "manufacturer" -> "manufacturer"
      [] attr = "product" -> "model"
      [] attr = "bcdDevice" -> "revision"

\* The file <realpath(/sys/class/video4linux/<node>/device)>/../<attr>; a node
\* that sysfs does not know resolves to a directory that does not exist.
AttrFile(fs, node, attr) ==
    IF node \in DOMAIN fs THEN fs[node][attr] ELSE Absent

\* os.path.exists(path)
PathExists(file) == file # Absent

\* The dict the resolver starts from.
InitialDeviceInfo ==
    [serial |-> Unknown, manufacturer |-> Unknown,
     model |-> Unknown, revision |-> Unknown]

\* The body of the try block from attribute number i on: each attribute is
\* read if its file exists; an exception raised by open() or read() leaves the
\* block, so the attributes after it are not attempted.
RECURSIVE ReadAttrs(_, _, _, _)
ReadAttrs(fs, node, i, device_info) ==
    IF i > Len(AttrOrder)
    THEN device_info
    ELSE LET file == AttrFile(fs, node, AttrOrder[i]) IN
         IF ~PathExists(file)
         THEN ReadAttrs(fs, node, i + 1, device_info)
         ELSE IF file = Unreadable
              THEN device_info
              ELSE ReadAttrs(fs, node, i + 1,
                     [device_info EXCEPT ![FieldOf(AttrOrder[i])] = Strip(file)])

GetDeviceInfoFromSysfs(fs, device_path) ==
    ReadAttrs(fs, Basename(device_path), 1, InitialDeviceInfo)

\* ------------------------------------------------------------------ _parse
\* The empty dict {}.
EmptyDict == [k \in {} |-> None]

\* dict.get(key, default)
DictGet(d, key, default) == IF key \in DOMAIN d THEN d[key] ELSE default

\* Variant: the last path taken as the main path.
MainDevicePathLast(paths) == IF NonEmptyList(paths) THEN paths[Len(paths)] ELSE None

\* device_info["paths"][0] if device_info["paths"] else None
MainDevicePath(paths) == IF NonEmptyList(paths) THEN paths[1] ELSE None

\* Whether _parse calls the sysfs resolver for this main path.
QueriesSysfs(main_device_path) == Truthy(main_device_path)

\* Variant: .get(<field>) without a default.
DefaultFieldNone == None

\* The default of sysfs_info.get(<field>, "Unknown").
DefaultField == Unknown

Parse(fs, device_info) ==
    LET main_device_path == MainDevicePath(device_info.paths)
        sysfs_info == IF QueriesSysfs(main_device_path)
                      THEN GetDeviceInfoFromSysfs(fs, main_device_path)
                      ELSE EmptyDict
    IN  [dev_name |-> main_device_path,
         paths |-> device_info.paths,
         manufacturer |-> DictGet(sysfs_info, "manufacturer", DefaultField),
         model |-> DictGet(sysfs_info, "model", DefaultField),
         revision |-> DictGet(sysfs_info, "revision", DefaultField),
         serial |-> DictGet(sysfs_info, "serial", DefaultField)]

\* The device paths _parse hands to the sysfs resolver, over a list of groups.
RECURSIVE SysfsQueries(_)
SysfsQueries(groups) ==
    IF groups = <<>>
    THEN <<>>
    ELSE LET main == MainDevicePath(Head(groups).paths) IN
         (IF QueriesSysfs(main) THEN <<main>> ELSE <<>>) \o SysfsQueries(Tail(groups))

\* ------------------------------------------------- list_digits: the parser
\* A group is the dict {'name': ..., 'paths': [...]}.  current_device is
\* a reference: ref is the position in devices of the dict it refers to, 0 when
\* that dict was not appended to devices (its paths are then never read), and
\* name is None when current_device is None.
NoCurrent == [name |-> None, ref |-> 0]

\* Variant: only the empty line skipped (line == "").
IsBlankOnlyEmpty(line) == line = <<>>

\* line.strip() == ""
IsBlank(line) == Strip(line) = <<>>

\* Variant: no filter on the name.
NameHasMarkerAlways(name) == TRUE

\* 'DIGIT' in current_device['name']
NameHasMarker(name) == Contains(name, Marker)

\* Variant: current_device replaced only by a group that has the marker.
OpenGroupKeepCurrent(st, name) ==
    IF NameHasMarker(name)
    THEN [devices |-> Append(st.devices, [name |-> name, paths |-> <<>>]),
          cur |-> [name |-> name, ref |-> Len(st.devices) + 1]]
    ELSE st

\* A device name line: current_device becomes a new dict, which is appended to
\* devices if its name has the marker.
OpenGroup(st, name) ==
    IF NameHasMarker(name)
    THEN [devices |-> Append(st.devices, [name |-> name, paths |-> <<>>]),
          cur |-> [name |-> name, ref |-> Len(st.devices) + 1]]
    ELSE [devices |-> st.devices, cur |-> [name |-> name, ref |-> 0]]

\* A device path line: appended to the dict current_device refers to.
AppendPath(st, path) ==
    IF st.cur.name # None /\ NameHasMarker(st.cur.name)
    THEN [st EXCEPT !.devices[st.cur.ref].paths = Append(@, path)]
    ELSE st

\* One iteration of the loop over output.splitlines().
ParseLine(st, line) ==
    IF IsBlank(line)
    THEN st
    ELSE IF ~StartsWith(line, Tab)
         THEN OpenGroup(st, Strip(line))
         ELSE AppendPath(st, Strip(line))

RECURSIVE ParseLines(_, _)
ParseLines(lines, st) ==
    IF lines = <<>> THEN st ELSE ParseLines(Tail(lines), ParseLine(st, Head(lines)))

\* Variant: one list shared by all calls.
NewDevicesShared(old) == old

\* devices = []: the list a call collects its groups in, given the list the
\* previous call built.
NewDevices(old) == <<>>

\* [DigitHandler._parse(device) for device in devices]
ParseAll(fs, groups) == [i \in 1..Len(groups) |-> Parse(fs, groups[i])]

\* ------------------------------------------------- list_digits: the tool
\* subprocess.run([...], check=True): what it raises for each way the tool ends.
ToolException(st) ==
    CASE st = "ok" -> "none"
      [] st = "nonzero" -> "CalledProcessError"
      [] st = "missing" -> "FileNotFoundError"

\* Variant: no except clause.
CatchesNothing(exc) == FALSE

\* except subprocess.CalledProcessError
Catches(exc) == exc = "CalledProcessError"

\* ------------------------------------------------------------ find_digit
\* An Optional[Dict] is a sequence of no record (None) or of one record.
NotFound == <<>>

\* Variant: the last match returned.
RECURSIVE FindLast(_, _)
FindLast(ds, s) ==
    IF ds = <<>>
    THEN NotFound
    ELSE IF ds[Len(ds)].serial = s
         THEN <<ds[Len(ds)]>>
         ELSE FindLast(SubSeq(ds, 1, Len(ds) - 1), s)

\* for digit in digits: if digit["serial"] == serial: return digit
RECURSIVE FindFirst(_, _)
FindFirst(ds, s) ==
    IF ds = <<>>
    THEN NotFound
    ELSE IF Head(ds).serial = s THEN <<Head(ds)>> ELSE FindFirst(Tail(ds), s)

\* ------------------------------------------------ the environments explored
\* "DIGIT A"
HeaderDigitA ==
    <<"D", "I", "G", "I", "T", " ", "A">>

\* " DIGIT B ": a name line with blanks around it
HeaderDigitB ==
    <<" ", "D", "I", "G", "I", "T", " ", "B", " ">>

\* "Cam"
HeaderCam ==
    <<"C", "a", "m">>

\* "\t/dev/video0"
PathLine0 ==
    <<"\t", "/", "d", "e", "v", "/", "v", "i", "d", "e", "o", "0">>

\* "\t/dev/video1 "
PathLine1 ==
    <<"\t", "/", "d", "e", "v", "/", "v", "i", "d", "e", "o", "1", " ">>

\* ""
EmptyLine ==
    <<>>

\* "\t "
BlankTabLine ==
    <<"\t", " ">>

\* "video0"
Video0 ==
    <<"v", "i", "d", "e", "o", "0">>

\* "video1"
Video1 ==
    <<"v", "i", "d", "e", "o", "1">>

\* "/dev/video0"
DevVideo0 ==
    <<"/", "d", "e", "v", "/", "v", "i", "d", "e", "o", "0">>

\* "/dev/video1"
DevVideo1 ==
    <<"/", "d", "e", "v", "/", "v", "i", "d", "e", "o", "1">>

\* " S1\n"
SerialFile1 ==
    <<" ", "S", "1", "\n">>

\* "S2\n"
SerialFile2 ==
    <<"S", "2", "\n">>

\* "s1\n"
SerialFileLower ==
    <<"s", "1", "\n">>

\* "GS\n"
ManufacturerFile ==
    <<"G", "S", "\n">>

\* "DIGIT\n"
ProductFileDigit ==
    <<"D", "I", "G", "I", "T", "\n">>

\* "Cam\n"
ProductFileCam ==
    <<"C", "a", "m", "\n">>

\* "1\n"
BcdDeviceFile ==
    <<"1", "\n">>

\* "S1"
SerialS1 ==
    <<"S", "1">>

\* "S2"
SerialS2 ==
    <<"S", "2">>

\* "s1"
SerialLower ==
    <<"s", "1">>

\* " S1"
SerialPadded ==
    <<" ", "S", "1">>

\* One sensor with two video nodes.
TextOneSensor ==
    <<"D", "I", "G", "I", "T", " ", "A", "\n", "\t", "/", "d", "e", "v", "/", "v", "i", "d", "e", "o", "0", "\n", "\t", "/", "d", "e", "v", "/", "v", "i", "d", "e", "o", "1", "\n">>

\* Two sensors, one node each, a blank line between the blocks.
TextTwoSensors ==
    <<"D", "I", "G", "I", "T", " ", "A", "\n", "\t", "/", "d", "e", "v", "/", "v", "i", "d", "e", "o", "0", "\n", "\n", "D", "I", "G", "I", "T", " ", "B", "\n", "\t", "/", "d", "e", "v", "/", "v", "i", "d", "e", "o", "1", "\n">>

\* A sensor with no node, a camera with one, a second sensor with one.
TextNoPaths ==
    <<"D", "I", "G", "I", "T", " ", "A", "\n", "C", "a", "m", "\n", "\t", "/", "d", "e", "v", "/", "v", "i", "d", "e", "o", "1", "\n", "D", "I", "G", "I", "T", " ", "B", "\n", "\t", "/", "d", "e", "v", "/", "v", "i", "d", "e", "o", "0", "\n">>

\* A camera and a sensor, lines ended by "\r\n".
TextCrLf ==
    <<"C", "a", "m", "\r", "\n", "\t", "/", "d", "e", "v", "/", "v", "i", "d", "e", "o", "1", "\r", "\n", "\r", "\n", "D", "I", "G", "I", "T", " ", "A", "\r", "\n", "\t", "/", "d", "e", "v", "/", "v", "i", "d", "e", "o", "0", "\r", "\n">>

\* "\tDIGIT": an indented line that has the marker
IndentedMarker ==
    <<"\t", "D", "I", "G", "I", "T">>

\* The lines the generated tool outputs are made of.
LinePool ==
    {HeaderDigitA, HeaderDigitB, HeaderCam, PathLine0, PathLine1,
     EmptyLine, BlankTabLine, IndentedMarker}

\* The lines joined by "\n", none after the last.
RECURSIVE JoinLines(_)
JoinLines(ls) ==
    IF ls = <<>> THEN <<>>
    ELSE IF Len(ls) = 1 THEN ls[1]
    ELSE ls[1] \o <<"\n">> \o JoinLines(Tail(ls))

GeneratedTexts ==
    {JoinLines(ls) : ls \in UNION {[1..n -> LinePool] : n \in 0..MaxLines}}

SmallTexts == {<<>>, TextOneSensor, TextTwoSensors, TextNoPaths, TextCrLf}

ToolStatuses == {"ok", "nonzero", "missing"}

Nodes == {Video0, Video1}

FileValues(attr) ==
    CASE attr = "serial" -> {Absent, Unreadable, SerialFile1, SerialFile2}
      [] attr = "manufacturer" -> {Absent, Unreadable, ManufacturerFile}
      [] attr = "product" -> {Absent, Unreadable, ProductFileDigit, ProductFileCam}
      [] attr = "bcdDevice" -> {Absent, Unreadable, BcdDeviceFile}

AttrNames == {"serial", "manufacturer", "product", "bcdDevice"}

\* A node with every attribute file present and readable.
FullNode(serialFile) ==
    [serial |-> serialFile, manufacturer |-> ManufacturerFile,
     product |-> ProductFileDigit, bcdDevice |-> BcdDeviceFile]

MissingNode == [a \in AttrNames |-> Absent]

NodeStates == {f \in [AttrNames -> UNION {FileValues(a) : a \in AttrNames}] :
                 \A a \in AttrNames : f[a] \in FileValues(a)}

SecondNodeStates == {MissingNode, FullNode(SerialFile1), FullNode(SerialFileLower)}

SerialQueries == {SerialS1, SerialS2, SerialLower, SerialPadded, Unknown}

\* ------------------------------------------------------------------- state
VARIABLES
    output,      \* what v4l2-ctl --list-devices writes to its standard output
    status,      \* how running the tool ends: "ok", "nonzero" or "missing"
    sysfs,       \* node name -> attribute name -> state of the attribute file
    devices,     \* the list of groups the last parsing loop built
    lookups,     \* the device paths the last call handed to the sysfs resolver
    outcome,     \* "none" before any call, then "returned" or "raised"
    digits,      \* the list the last list_digits() returned (<<>> if it raised)
    query,       \* the serial the last call was asked for (None: list_digits)
    found,       \* what the last find_digit() returned
    callsSince   \* calls made since the environment last changed

vars ==
    <<output, status, sysfs, devices, lookups, outcome, digits, query, found,
      callsSince>>

env == <<output, status, sysfs>>

NoCallYet ==
    /\ devices = <<>>
    /\ lookups = <<>>
    /\ outcome = "none"
    /\ digits = <<>>
    /\ query = None
    /\ found = NotFound
    /\ callsSince = 0

\* ----------------------------------------------------------------- actions
\* The body of list_digits() on the current environment.
RunListDigits ==
    LET exc == ToolException(status) IN
    IF exc = "none"
    THEN LET st == ParseLines(SplitLines(output),
                              [devices |-> NewDevices(devices), cur |-> NoCurrent])
         IN  /\ devices' = st.devices
             /\ lookups' = SysfsQueries(st.devices)
             /\ digits' = ParseAll(sysfs, st.devices)
             /\ outcome' = "returned"
    ELSE /\ UNCHANGED devices
         /\ lookups' = <<>>
         /\ digits' = <<>>
         /\ outcome' = IF Catches(exc) THEN "returned" ELSE "raised"

\* DigitHandler.list_digits()
ListDigits ==
    /\ callsSince < MaxCalls
    /\ RunListDigits
    /\ query' = None
    /\ found' = NotFound
    /\ callsSince' = callsSince + 1
    /\ UNCHANGED env

\* DigitHandler.find_digit(serial)
FindDigit(serial) ==
    /\ callsSince < MaxCalls
    /\ RunListDigits
    /\ query' = serial
    /\ found' = IF outcome' = "returned" THEN FindFirst(digits', serial) ELSE NotFound
    /\ callsSince' = callsSince + 1
    /\ UNCHANGED env

\* The environment changes between two calls; nothing of the program runs.
SetOutput(text) ==
    /\ text # output
    /\ output' = text
    /\ callsSince' = 0
    /\ UNCHANGED <<status, sysfs, devices, lookups, outcome, digits, query, found>>

SetStatus(st) ==
    /\ st # status
    /\ status' = st
    /\ callsSince' = 0
    /\ UNCHANGED <<output, sysfs, devices, lookups, outcome, digits, query, found>>

SetSerialFile(node, file) ==
    /\ sysfs[node]["serial"] # file
    /\ sysfs' = [sysfs EXCEPT ![node]["serial"] = file]
    /\ callsSince' = 0
    /\ UNCHANGED <<output, status, devices, lookups, outcome, digits, query, found>>

\* ---------------------------------------------------------- specifications
Calls ==
    \/ ListDigits
    \/ \E serial \in SerialQueries : FindDigit(serial)

\* Calls interleaved with changes of the environment.
Init ==
    /\ output = TextOneSensor
    /\ status = "ok"
    /\ sysfs = [n \in Nodes |-> FullNode(SerialFile1)]
    /\ NoCallYet

Next ==
    \/ ListDigits
    \/ \E serial \in SerialQueries : FindDigit(serial)
    \/ \E text \in SmallTexts : SetOutput(text)
    \/ \E st \in ToolStatuses : SetStatus(st)
    \/ \E node \in Nodes, file \in FileValues("serial") : SetSerialFile(node, file)

Spec == Init /\ [][Next]_vars

\* Calls on every generated tool output, sysfs fixed.
InitParse ==
    /\ output \in GeneratedTexts
    /\ status = "ok"
    /\ sysfs = [n \in Nodes |-> FullNode(SerialFile1)]
    /\ NoCallYet

NextParse ==
    \/ ListDigits
    \/ FindDigit(SerialS1)

SpecParse == InitParse /\ [][NextParse]_vars

\* Calls on every state of the sysfs attribute files, a few tool outputs.
InitSysfs ==
    /\ output \in SmallTexts
    /\ status = "ok"
    /\ sysfs \in {[n \in Nodes |-> IF n = Video0 THEN a ELSE b] :
                    a \in NodeStates, b \in SecondNodeStates}
    /\ NoCallYet

NextSysfs ==
    \/ ListDigits
    \/ \E serial \in SerialQueries : FindDigit(serial)

SpecSysfs == InitSysfs /\ [][NextSysfs]_vars

\* --------------------------------------- the tool output, read as the claims do
\* The lines of the tool output.
Lines == SplitLines(output)

\* A line of whitespace only.
BlankLine(l) == \A i \in 1..Len(l) : l[i] \in Whitespace

\* A non-blank line that starts with a tab: a device path line.
PathLine(l) == ~BlankLine(l) /\ l[1] = "\t"

\* A non-blank line that does not start with a tab: a device name line.
NameLine(l) == ~BlankLine(l) /\ l[1] # "\t"

\* The positions in ls of the name lines that have the marker.
MarkerLines(ls) ==
    {i \in 1..Len(ls) : NameLine(ls[i]) /\ Contains(Strip(ls[i]), Marker)}

\* The k-th smallest element of a set of numbers.
Nth(S, k) == CHOOSE i \in S : Cardinality({j \in S : j < i}) = k - 1

\* The position of the first name line after line h, or one past the last line.
BlockEnd(ls, h) ==
    LET later == {j \in (h + 1)..Len(ls) : NameLine(ls[j])} IN
    IF later = {} THEN Len(ls) + 1
    ELSE CHOOSE j \in later : \A m \in later : j <= m

\* The trimmed path lines between name line h and the next name line.
PathsUnder(ls, h) ==
    LET kept == SelectSeq(SubSeq(ls, h + 1, BlockEnd(ls, h) - 1), PathLine)
    IN  [i \in 1..Len(kept) |-> Strip(kept[i])]

\* The position of the name line that line j belongs to: the last one before
\* it, 0 if there is none.
Governing(ls, j) ==
    LET before == {i \in 1..(j - 1) : NameLine(ls[i])} IN
    IF before = {} THEN 0
    ELSE CHOOSE i \in before : \A m \in before : m <= i

\* Path lines under a name line that has the marker, and the others.
OwnedLines(ls) ==
    {j \in 1..Len(ls) : PathLine(ls[j]) /\ Governing(ls, j) \in MarkerLines(ls)}

OrphanLines(ls) ==
    {j \in 1..Len(ls) : PathLine(ls[j]) /\ Governing(ls, j) \notin MarkerLines(ls)}

Range(f) == {f[i] : i \in DOMAIN f}

RECURSIVE TotalPaths(_)
TotalPaths(ds) ==
    IF ds = <<>> THEN 0 ELSE Len(Head(ds).paths) + TotalPaths(Tail(ds))

Fields == {"manufacturer", "model", "revision", "serial"}

\* A Python str: a sequence of single characters (None is not one).
IsStr(x) == \A k \in 1..Len(x) : Len(x[k]) = 1

\* The attribute file behind a field of a record that has a main path.
FileBehind(d, attr) == AttrFile(sysfs, Basename(d.paths[1]), attr)

\* ------------------------------------------------------------------ claims
\* C1: when the tool exits with a non-zero status, list_digits() returns the
\* empty list without raising, and find_digit(s) returns None without raising.
C1_NonzeroExitFailsSoft ==
    (callsSince > 0 /\ status = "nonzero") =>
        /\ outcome = "returned"
        /\ digits = <<>>
        /\ found = NotFound

\* C1 witness: find_digit was called while the tool exits non-zero, although
\* its output lists a sensor.
C1_Witness ==
    /\ callsSince > 0
    /\ status = "nonzero"
    /\ query = SerialS1
    /\ output = TextOneSensor
    /\ outcome = "returned"

\* C2: when the tool's executable is missing, list_digits() returns the empty
\* list and no error reaches the caller of list_digits() or find_digit().
C2_MissingToolFailsSoft ==
    (callsSince > 0 /\ status = "missing") =>
        /\ outcome = "returned"
        /\ digits = <<>>

\* C3: find_digit(s) returns the record of lowest index of list_digits()'s
\* list whose serial equals s exactly, and None iff no record has serial s.
C3_FindDigitFirstExactMatch ==
    (query # None /\ outcome = "returned") =>
        LET matches == {i \in 1..Len(digits) : digits[i].serial = query} IN
        IF matches = {}
        THEN found = NotFound
        ELSE found = <<digits[Nth(matches, 1)]>>

\* C3 witness: two different records carry the serial asked for, and the
\* first was returned.
C3_Witness ==
    /\ query # None
    /\ outcome = "returned"
    /\ Len(digits) = 2
    /\ digits[1].serial = query
    /\ digits[2].serial = query
    /\ digits[1] # digits[2]
    /\ found = <<digits[1]>>

\* C4 as claimed: every record returned by list_digits() has a model field
\* that contains the marker "DIGIT".
C4_ModelHasMarker ==
    outcome = "returned" =>
        \A i \in 1..Len(digits) : Contains(digits[i].model, Marker)

\* C4 amended: every record returned by list_digits() comes from a group whose
\* trimmed name line contains "DIGIT"; its model field is the trimmed sysfs
\* product attribute of its main path, or "Unknown", marker or no marker.
C4_NameHasMarker ==
    outcome = "returned" =>
        /\ Len(digits) = Len(devices)
        /\ \A i \in 1..Len(digits) :
            /\ Contains(devices[i].name, Marker)
            /\ digits[i].paths = devices[i].paths
            /\ \/ digits[i].model = Unknown
               \/ /\ digits[i].paths # <<>>
                  /\ PathExists(FileBehind(digits[i], "product"))
                  /\ digits[i].model = Strip(FileBehind(digits[i], "product"))

\* C4 witness: a returned record whose model was read from sysfs and lacks
\* the marker.
C4_Witness ==
    /\ outcome = "returned"
    /\ \E i \in 1..Len(digits) :
        /\ digits[i].model # Unknown
        /\ ~Contains(digits[i].model, Marker)

\* C5: a failure to read one sysfs attribute leaves only that field at
\* "Unknown"; every attribute whose file is present and readable is reported
\* with its trimmed content.
C5_FieldLevelFailure ==
    outcome = "returned" =>
        \A i \in 1..Len(digits) :
            digits[i].paths # <<>> =>
                \A a \in AttrNames :
                    LET file == FileBehind(digits[i], a) IN
                    (file # Absent /\ file # Unreadable) =>
                        digits[i][FieldOf(a)] = Strip(file)

\* C6: in every returned record manufacturer, model, revision and serial are
\* strings, never None, and "Unknown" when the attribute was not resolved.
C6_FieldsAlwaysStrings ==
    outcome = "returned" =>
        \A i \in 1..Len(digits) : \A a \in AttrNames :
            /\ digits[i][FieldOf(a)] # None
            /\ IsStr(digits[i][FieldOf(a)])
            /\ (\/ digits[i].paths = <<>>
                \/ FileBehind(digits[i], a) \in {Absent, Unreadable})
               => digits[i][FieldOf(a)] = Unknown

\* C6 witness: a returned record of a group without paths, and a returned
\* record one of whose attribute files fails to read.
C6_Witness ==
    /\ outcome = "returned"
    /\ \E i \in 1..Len(digits) : digits[i].paths = <<>> /\ digits[i].serial = Unknown
    /\ \E i \in 1..Len(digits) :
        /\ digits[i].paths # <<>>
        /\ FileBehind(digits[i], "product") = Unreadable
        /\ digits[i].model = Unknown

\* C7: list_digits() returns one record per name line that has the marker, in
\* order; its paths are the trimmed path lines up to the next name line, in
\* order; blank lines neither end the group nor add a path.
C7_OneRecordPerMarkerLine ==
    (outcome = "returned" /\ callsSince > 0 /\ status = "ok") =>
        LET ls == Lines
            heads == MarkerLines(ls)
        IN  /\ Len(digits) = Cardinality(heads)
            /\ Len(devices) = Cardinality(heads)
            /\ \A k \in 1..Len(digits) :
                /\ devices[k].name = Strip(ls[Nth(heads, k)])
                /\ digits[k].paths = PathsUnder(ls, Nth(heads, k))

\* C7 witness: a blank line lies between a marker name line and its path line,
\* and the record has exactly that path.
C7_Witness ==
    /\ outcome = "returned"
    /\ status = "ok"
    /\ Len(digits) = 1
    /\ \E h \in MarkerLines(Lines) : \E b, p \in 1..Len(Lines) :
        /\ h < b
        /\ b < p
        /\ BlankLine(Lines[b])
        /\ PathLine(Lines[p])
        /\ digits[1].paths = <<Strip(Lines[p])>>

\* C8: a name line without the marker produces no record, and the path lines
\* after it, like a path line before any name line, are in no record's paths.
C8_OrphanPathsDropped ==
    (outcome = "returned" /\ callsSince > 0 /\ status = "ok") =>
        LET ls == Lines
            owned == OwnedLines(ls)
        IN  /\ Len(digits) = Cardinality(MarkerLines(ls))
            /\ TotalPaths(digits) = Cardinality(owned)
            /\ \A j \in OrphanLines(ls) :
                (\A o \in owned : Strip(ls[o]) # Strip(ls[j])) =>
                    \A k \in 1..Len(digits) : Strip(ls[j]) \notin Range(digits[k].paths)

\* C8 witness: a path line follows a name line without the marker that itself
\* follows a name line with the marker, and a record was returned.
C8_Witness ==
    /\ outcome = "returned"
    /\ status = "ok"
    /\ Len(digits) >= 1
    /\ \E j \in OrphanLines(Lines) : \E h \in MarkerLines(Lines) : h < Governing(Lines, j)

\* What a call returns in an environment, read off the tool output and sysfs.
ExpectedDigits ==
    LET ls == Lines
        heads == MarkerLines(ls)
    IN  [k \in 1..Cardinality(heads) |->
            Parse(sysfs, [name |-> Strip(ls[Nth(heads, k)]),
                          paths |-> PathsUnder(ls, Nth(heads, k))])]

\* C9: no state is kept between calls: a call made under the environment of the
\* call before it returns the same, and what a call returns is what the
\* environment at the time of the call gives, whatever earlier calls returned.
C9_NoStateBetweenCalls ==
    /\ [][(callsSince > 0 /\ callsSince' = callsSince + 1) =>
            /\ outcome' = outcome
            /\ digits' = digits
            /\ lookups' = lookups
            /\ (query' = query => found' = found)]_vars
    /\ []((callsSince > 0 /\ status = "ok") =>
            (outcome = "returned" /\ digits = ExpectedDigits))
    /\ []((callsSince > 0 /\ status # "ok") => digits = <<>>)

\* C9 witness: after the tool output and a serial file changed, two calls in a
\* row were made and returned the two sensors now present.
C9_Witness ==
    /\ callsSince >= 2
    /\ output = TextTwoSensors
    /\ sysfs[Video1]["serial"] = SerialFile2
    /\ outcome = "returned"
    /\ Len(digits) = 2
    /\ digits[2].serial = SerialS2

\* C10: dev_name is None iff paths is empty, and otherwise the first path; with
\* no paths, sysfs is not queried and the four fields are "Unknown".
C10_DevNameIsFirstPath ==
    outcome = "returned" =>
        /\ \A i \in 1..Len(digits) :
            /\ (digits[i].dev_name = None) <=> (digits[i].paths = <<>>)
            /\ digits[i].paths # <<>> => digits[i].dev_name = digits[i].paths[1]
            /\ digits[i].paths = <<>> =>
                \A f \in Fields : digits[i][f] = Unknown
        /\ LET withPaths == SelectSeq(digits, LAMBDA d : d.paths # <<>>)
           IN  lookups = [k \in 1..Len(withPaths) |-> withPaths[k].paths[1]]

\* C10 witness: a returned record without paths, for which sysfs was not
\* queried, before a record with a path, for which it was.
C10_Witness ==
    /\ outcome = "returned"
    /\ Len(digits) = 2
    /\ digits[1].paths = <<>>
    /\ digits[1].dev_name = None
    /\ lookups = <<digits[2].dev_name>>

=============================================================================
